---- MODULE Spec2Model ----
(***************************************************************************)
(* Model of detect_dead_files.py: reachability analysis of a source tree   *)
(* over relative imports, followed by three reports.                       *)
(*                                                                         *)
(* A string is a sequence of one-character strings, so that startswith,    *)
(* endswith, dirname, join, normpath and sorted() are computed on the      *)
(* characters as Python computes them.  A file's text is represented by    *)
(* the sequence of import paths import_pattern.findall extracts from it.   *)
(***************************************************************************)
EXTENDS Integers, Sequences, FiniteSets, TLC

\* ------------------------------------------------------------------------
\* Bounds of the model
\* ------------------------------------------------------------------------
\* Total number of import statements in the source tree.
MaxImports == 2
\* Number of reads that may fail in one run.
MaxFail == 1

\* ------------------------------------------------------------------------
\* Strings
\* ------------------------------------------------------------------------
\* The characters in use, in increasing code-point order.
Chars == << ".", "/", "A", "a", "c", "d", "e", "i", "j", "m", "n", "p", "r",
            "s", "t", "x" >>

\* Rank of a character; order-isomorphic to Python's code-point order.
Ord(c) == CHOOSE i \in 1..Len(Chars) : Chars[i] = c

Range(s) == { s[i] : i \in 1..Len(s) }

Min(S) == CHOOSE m \in S : \A n \in S : m <= n

\* str.startswith / str.endswith
startswith(s, p) == Len(s) >= Len(p) /\ SubSeq(s, 1, Len(p)) = p
endswith(s, p) == Len(s) >= Len(p) /\ SubSeq(s, Len(s) - Len(p) + 1, Len(s)) = p

\* Python's < on str: the first differing character decides, a proper
\* prefix is smaller.
StrLess(a, b) ==
  LET m == IF Len(a) < Len(b) THEN Len(a) ELSE Len(b)
      D == { i \in 1..m : a[i] # b[i] }
  IN IF D = {} THEN Len(a) < Len(b) ELSE Ord(a[Min(D)]) < Ord(b[Min(D)])

\* sorted(S) for a set of strings, by repeated extraction of the minimum.
RECURSIVE sorted(_)
sorted(S) ==
  IF S = {} THEN << >>
  ELSE LET m == CHOOSE x \in S : \A y \in S \ {x} : StrLess(x, y)
       IN << m >> \o sorted(S \ {m})

\* str.split("/"): the pieces between the slashes at positions seps, from on.
RECURSIVE SplitFrom(_, _, _)
SplitFrom(s, from, seps) ==
  IF seps = {} THEN << SubSeq(s, from, Len(s)) >>
  ELSE LET k == Min(seps)
       IN << SubSeq(s, from, k - 1) >> \o SplitFrom(s, k + 1, seps \ { k })

split(s) == SplitFrom(s, 1, { i \in 1..Len(s) : s[i] = "/" })

\* "/".join(comps)
RECURSIVE joinSlash(_)
joinSlash(comps) ==
  IF comps = << >> THEN << >>
  ELSE IF Len(comps) = 1 THEN comps[1]
  ELSE comps[1] \o << "/" >> \o joinSlash(Tail(comps))

\* ------------------------------------------------------------------------
\* os.path (POSIX)
\* ------------------------------------------------------------------------
Dot == << "." >>
DotDot == << ".", "." >>

\* The loop of posixpath.normpath over the components.
RECURSIVE NormComps(_, _, _)
NormComps(comps, new_comps, initial_slashes) ==
  IF comps = << >> THEN new_comps
  ELSE LET comp == Head(comps)
           rest == Tail(comps)
       IN IF comp = << >> \/ comp = Dot
            THEN NormComps(rest, new_comps, initial_slashes)
          ELSE IF \/ comp # DotDot
                  \/ (~initial_slashes /\ new_comps = << >>)
                  \/ (new_comps # << >> /\ new_comps[Len(new_comps)] = DotDot)
            THEN NormComps(rest, Append(new_comps, comp), initial_slashes)
          ELSE IF new_comps # << >>
            THEN NormComps(rest, SubSeq(new_comps, 1, Len(new_comps) - 1),
                           initial_slashes)
          ELSE NormComps(rest, new_comps, initial_slashes)

\* os.path.normpath
normpath(path) ==
  IF path = << >> THEN Dot
  ELSE LET initial_slashes == path[1] = "/"
           p == joinSlash(NormComps(split(path), << >>, initial_slashes))
           q == IF initial_slashes THEN << "/" >> \o p ELSE p
       IN IF q = << >> THEN Dot ELSE q

\* str.rstrip("/")
RECURSIVE rstripSlash(_)
rstripSlash(s) ==
  IF s # << >> /\ s[Len(s)] = "/" THEN rstripSlash(SubSeq(s, 1, Len(s) - 1))
  ELSE s

\* os.path.dirname
dirname(p) ==
  LET S == { i \in 1..Len(p) : p[i] = "/" }
      i == IF S = {} THEN 0 ELSE CHOOSE k \in S : \A l \in S : l <= k
      head == SubSeq(p, 1, i)
  IN IF head # << >> /\ rstripSlash(head) # << >> THEN rstripSlash(head)
     ELSE head

\* os.path.join of two parts
join(a, b) ==
  IF b # << >> /\ b[1] = "/" THEN b
  ELSE IF a = << >> \/ a[Len(a)] = "/" THEN a \o b
  ELSE a \o << "/" >> \o b

\* ------------------------------------------------------------------------
\* Program constants and the names that occur in the modelled trees
\* ------------------------------------------------------------------------
SRC_DIR == << "s", "r", "c" >>
MAIN_TSX == << "m", "a", "i", "n", ".", "t", "s", "x" >>
APP_TSX == << "A", "p", "p", ".", "t", "s", "x" >>
\* The four extensions, in the order lines 16, 22 and 46 list them.
EXTENSIONS == << << ".", "t", "s" >>, << ".", "t", "s", "x" >>, << ".", "j", "s" >>, << ".", "j", "s", "x" >> >>
INDEX == << "i", "n", "d", "e", "x" >>

\* resolve_import's "return None"; no path is the empty string.
None == << >>

\* Files of the modelled source trees.
SrcMain == << "s", "r", "c", "/", "m", "a", "i", "n", ".", "t", "s", "x" >>
SrcApp == << "s", "r", "c", "/", "A", "p", "p", ".", "t", "s", "x" >>
SrcA == << "s", "r", "c", "/", "a", ".", "t", "s" >>
SrcAIndex == << "s", "r", "c", "/", "a", "/", "i", "n", "d", "e", "x", ".", "j", "s" >>
OutsideX == << "x", ".", "j", "s" >>

\* The files that hold import statements, and every file a tree may hold.
Importers == { SrcMain, SrcA }
Universe == Importers \cup { SrcApp, SrcAIndex, OutsideX }

\* Import paths that occur in the files' import statements.
ImpA == << ".", "/", "a" >>
ImpX == << ".", ".", "/", "x" >>
ImpMain == << ".", "/", "m", "a", "i", "n" >>
ImpAIndex == << ".", "/", "a", "/", "i", "n", "d", "e", "x" >>
ImportPaths == { ImpA, ImpX, ImpMain, ImpAIndex }

\* Files and queries of the trees resolve_import is exercised on alone.
SrcATsx == << "s", "r", "c", "/", "a", ".", "t", "s", "x" >>
SrcAJsx == << "s", "r", "c", "/", "a", ".", "j", "s", "x" >>
SrcATsTs == << "s", "r", "c", "/", "a", ".", "t", "s", ".", "t", "s" >>
SrcAIndexTs == << "s", "r", "c", "/", "a", "/", "i", "n", "d", "e", "x", ".", "t", "s" >>
SrcAIndexJsx == << "s", "r", "c", "/", "a", "/", "i", "n", "d", "e", "x", ".", "j", "s", "x" >>
CwdIndex == << "i", "n", "d", "e", "x", ".", "j", "s" >>
ResolveUniverse ==
  { SrcA, SrcATsx, SrcAJsx, SrcATsTs, SrcAIndexTs, SrcAIndexJsx, CwdIndex,
    OutsideX }
ImpATs == << ".", "/", "a", ".", "t", "s" >>
ImpParent == << ".", "." >>
ImpHere == << "." >>
ImpUpA == << ".", ".", "/", "a" >>
ImpReact == << "r", "e", "a", "c", "t" >>
ResolveBases == { SrcMain, SrcAIndexTs, OutsideX }
ResolveImports ==
  { ImpA, ImpATs, ImpParent, ImpHere, ImpUpA, ImpX, ImpAIndex, ImpReact }

\* ------------------------------------------------------------------------
\* State
\* ------------------------------------------------------------------------
VARIABLES
  files,         \* the regular files on disk (paths relative to the cwd)
  content,       \* file -> the import paths findall extracts from its text
  ENTRY_FILES,   \* the configured entry list
  pc,            \* "traverse", "used", "direct", "two", "done"
  aborted,       \* an unhandled exception ended the run
  entry_idx,     \* position of the entry loop in ENTRY_FILES
  stack,         \* the active visit_file calls: [file, imports, i]
  visited,       \* the global set visited
  order,         \* history: the paths in the order visited.add / open ran
  failures,      \* history: number of reads that raised
  all_files,     \* the list all_files
  unused_files,  \* the list unused_files
  console,       \* the printed lines
  created,       \* the report files opened for writing
  used_md,       \* lines of used_files.md
  direct_md,     \* lines of used_files_direct_imports.md
  two_md,        \* lines of used_files_two_levels.md
  query          \* last resolve_import call made alone: <<base, import, result>>

vars == << files, content, ENTRY_FILES, pc, aborted, entry_idx, stack, visited,
           order, failures, all_files, unused_files, console, created, used_md,
           direct_md, two_md, query >>

tree == << files, content, ENTRY_FILES >>
outputs == << all_files, unused_files, console, created, used_md, direct_md,
              two_md >>

\* ------------------------------------------------------------------------
\* The file system
\* ------------------------------------------------------------------------
\* os.path.isfile: the kernel resolves "." and ".." components.
isfile(p) == normpath(p) \in files

\* A directory is a proper ancestor of a file, or the cwd or its parent.
isdir(p) ==
  LET n == normpath(p)
  IN \/ n \in { Dot, DotDot }
     \/ \E f \in files : startswith(f, n \o << "/" >>)

\* os.path.exists
exists(p) == isfile(p) \/ isdir(p)

\* import_pattern.findall(content) of the text read from file.
findall(file) == IF file \in DOMAIN content THEN content[file] ELSE << >>

\* ------------------------------------------------------------------------
\* resolve_import
\* ------------------------------------------------------------------------
\* A mutation: the joined path itself is tried before the extensions.
resolve_import_exact(base_file, import_path) ==
  IF startswith(import_path, Dot) THEN
    LET base_dir == dirname(base_file)
        full_path == normpath(join(base_dir, import_path))
        ext_hits == { i \in 1..Len(EXTENSIONS) :
                        isfile(full_path \o EXTENSIONS[i]) }
        idx_hits == { i \in 1..Len(EXTENSIONS) :
                        isfile(join(full_path, INDEX \o EXTENSIONS[i])) }
    IN IF isfile(full_path) THEN full_path
       ELSE IF ext_hits # {}
         THEN normpath(full_path \o EXTENSIONS[Min(ext_hits)])
       ELSE IF idx_hits # {}
         THEN normpath(join(full_path, INDEX \o EXTENSIONS[Min(idx_hits)]))
       ELSE None
  ELSE None

resolve_import(base_file, import_path) ==
  IF startswith(import_path, Dot) THEN
    LET base_dir == dirname(base_file)
        full_path == normpath(join(base_dir, import_path))
        \* the iterations of each for loop whose candidate is a file
        ext_hits == { i \in 1..Len(EXTENSIONS) :
                        isfile(full_path \o EXTENSIONS[i]) }
        idx_hits == { i \in 1..Len(EXTENSIONS) :
                        isfile(join(full_path, INDEX \o EXTENSIONS[i])) }
    IN IF ext_hits # {}
         THEN normpath(full_path \o EXTENSIONS[Min(ext_hits)])
       ELSE IF idx_hits # {}
         THEN normpath(join(full_path, INDEX \o EXTENSIONS[Min(idx_hits)]))
       ELSE None
  ELSE None

\* ------------------------------------------------------------------------
\* get_all_source_files
\* ------------------------------------------------------------------------
\* f.endswith(('.ts', '.tsx', '.js', '.jsx'))
HasSourceExt(f) == \E i \in 1..Len(EXTENSIONS) : endswith(f, EXTENSIONS[i])

\* The paths join(root, f) os.walk(SRC_DIR) yields.  The listing order is the
\* file system's; the program observes only the length and the members of
\* the lists built from it, and the sorted order stands for it here.
walk == sorted({ f \in files : startswith(f, SRC_DIR \o << "/" >>) })

RECURSIVE NormAll(_)
NormAll(s) ==
  IF s = << >> THEN << >> ELSE << normpath(Head(s)) >> \o NormAll(Tail(s))

get_all_source_files == NormAll(SelectSeq(walk, HasSourceExt))

\* ------------------------------------------------------------------------
\* Reads
\* ------------------------------------------------------------------------
\* open()/read() of a file may raise at any read (permissions, I/O, decoding);
\* the number of reads that raise in one run is bounded by MaxFail.
ReadOutcomes == IF failures < MaxFail THEN BOOLEAN ELSE { TRUE }

\* ------------------------------------------------------------------------
\* Traversal
\* ------------------------------------------------------------------------
entry_path(entry) == normpath(join(SRC_DIR, entry))

Frame(filepath) == [file |-> filepath, imports |-> findall(filepath), i |-> 1]

OnStack(filepath) == \E k \in 1..Len(stack) : stack[k].file = filepath

\* A mutation: only the calls that are still active are remembered.
visit_guard_active_only(filepath) == OnStack(filepath) \/ ~exists(filepath)

\* The early return of visit_file.
visit_guard(filepath) == filepath \in visited \/ ~exists(filepath)

\* visit_file(filepath) up to its for loop, called with the callers' frames
\* stk; read_ok is the outcome of open()/read().
visit_file(filepath, stk, read_ok) ==
  IF visit_guard(filepath)
    THEN /\ stack' = stk
         /\ UNCHANGED << visited, order, aborted, failures >>
    ELSE /\ visited' = visited \cup { filepath }
         /\ order' = Append(order, filepath)
         /\ IF read_ok /\ isfile(filepath)
              THEN /\ stack' = Append(stk, Frame(filepath))
                   /\ UNCHANGED << aborted, failures >>
              ELSE /\ stack' = stk
                   /\ aborted' = TRUE
                   /\ failures' = failures + 1

InEntryLoop ==
  /\ pc = "traverse"
  /\ ~aborted
  /\ stack = << >>
  /\ entry_idx <= Len(ENTRY_FILES)

\* A mutation: a missing entry file ends the entry loop.
EntrySkip_break ==
  /\ InEntryLoop
  /\ ~exists(entry_path(ENTRY_FILES[entry_idx]))
  /\ entry_idx' = Len(ENTRY_FILES) + 1
  /\ UNCHANGED << tree, pc, aborted, stack, visited, order, failures, outputs,
                  query >>

\* An iteration of the entry loop whose entry_path does not exist.
EntrySkip ==
  /\ InEntryLoop
  /\ ~exists(entry_path(ENTRY_FILES[entry_idx]))
  /\ entry_idx' = entry_idx + 1
  /\ UNCHANGED << tree, pc, aborted, stack, visited, order, failures, outputs,
                  query >>

\* An iteration of the entry loop that calls visit_file(entry_path).
EntryVisit ==
  /\ InEntryLoop
  /\ exists(entry_path(ENTRY_FILES[entry_idx]))
  /\ entry_idx' = entry_idx + 1
  /\ \E read_ok \in ReadOutcomes :
       visit_file(entry_path(ENTRY_FILES[entry_idx]), stack, read_ok)
  /\ UNCHANGED << tree, pc, outputs, query >>

InVisit == pc = "traverse" /\ ~aborted /\ stack # << >>

Top == stack[Len(stack)]

\* The callers' frames once the innermost for loop has taken its next import.
Advanced == [stack EXCEPT ![Len(stack)].i = @ + 1]

\* A mutation: a resolved import is marked visited but not itself scanned.
VisitImport_shallow ==
  /\ InVisit
  /\ Top.i <= Len(Top.imports)
  /\ LET resolved == resolve_import(Top.file, Top.imports[Top.i])
     IN /\ stack' = Advanced
        /\ IF resolved # None /\ ~visit_guard(resolved)
             THEN visited' = visited \cup { resolved } /\ order' = Append(order, resolved)
             ELSE UNCHANGED << visited, order >>
  /\ UNCHANGED << tree, pc, aborted, failures, entry_idx, outputs, query >>

\* A mutation: an import that resolves outside SRC_DIR is not followed.
VisitImport_confined ==
  /\ InVisit
  /\ Top.i <= Len(Top.imports)
  /\ LET resolved == resolve_import(Top.file, Top.imports[Top.i])
     IN IF resolved # None /\ startswith(resolved, SRC_DIR \o << "/" >>)
          THEN \E read_ok \in ReadOutcomes : visit_file(resolved, Advanced, read_ok)
          ELSE /\ stack' = Advanced
               /\ UNCHANGED << visited, order, aborted, failures >>
  /\ UNCHANGED << tree, pc, entry_idx, outputs, query >>

\* One iteration of "for imp in imports" of the innermost visit_file call.
VisitImport ==
  /\ InVisit
  /\ Top.i <= Len(Top.imports)
  /\ LET resolved == resolve_import(Top.file, Top.imports[Top.i])
     IN IF resolved # None
          THEN \E read_ok \in ReadOutcomes : visit_file(resolved, Advanced, read_ok)
          ELSE /\ stack' = Advanced
               /\ UNCHANGED << visited, order, aborted, failures >>
  /\ UNCHANGED << tree, pc, entry_idx, outputs, query >>

\* The innermost visit_file call has exhausted its imports and returns.
VisitReturn ==
  /\ InVisit
  /\ Top.i > Len(Top.imports)
  /\ stack' = SubSeq(stack, 1, Len(stack) - 1)
  /\ UNCHANGED << tree, pc, aborted, entry_idx, visited, order, failures,
                  outputs, query >>

\* ------------------------------------------------------------------------
\* Summary (lines 56-63)
\* ------------------------------------------------------------------------
NotIn(S, seq) == SelectSeq(seq, LAMBDA f : f \notin S)

\* A printed line is its text and the number formatted into it (0 when the
\* line holds none).

TraversalOver ==
  /\ pc = "traverse"
  /\ ~aborted
  /\ stack = << >>
  /\ entry_idx > Len(ENTRY_FILES)

\* A mutation: the unused count is derived as total minus used.
Summary_derived_unused ==
  /\ TraversalOver
  /\ LET af == get_all_source_files
         uf == NotIn(visited, af)
     IN /\ all_files' = af
        /\ unused_files' = uf
        /\ console' = console \o << << "Total files: ", Len(af) >>,
                                    << "Used files: ", Cardinality(visited) >>,
                                    << "Unused files: ", Len(af) - Cardinality(visited) >> >>
  /\ pc' = "used"
  /\ UNCHANGED << tree, aborted, entry_idx, stack, visited, order, failures,
                  created, used_md, direct_md, two_md, query >>

\* A mutation: the used count is derived as total minus unused.
Summary_derived_used ==
  /\ TraversalOver
  /\ LET af == get_all_source_files
         uf == NotIn(visited, af)
     IN /\ all_files' = af
        /\ unused_files' = uf
        /\ console' = console \o << << "Total files: ", Len(af) >>,
                                    << "Used files: ", Len(af) - Len(uf) >>,
                                    << "Unused files: ", Len(uf) >> >>
  /\ pc' = "used"
  /\ UNCHANGED << tree, aborted, entry_idx, stack, visited, order, failures,
                  created, used_md, direct_md, two_md, query >>

Summary ==
  /\ TraversalOver
  /\ LET af == get_all_source_files
         uf == NotIn(visited, af)
     IN /\ all_files' = af
        /\ unused_files' = uf
        /\ console' = console \o << << "Total files: ", Len(af) >>,
                                    << "Used files: ", Cardinality(visited) >>,
                                    << "Unused files: ", Len(uf) >> >>
  /\ pc' = "used"
  /\ UNCHANGED << tree, aborted, entry_idx, stack, visited, order, failures,
                  created, used_md, direct_md, two_md, query >>

\* ------------------------------------------------------------------------
\* Reports
\* ------------------------------------------------------------------------
USED_MD == "used_files.md"
DIRECT_MD == "used_files_direct_imports.md"
TWO_MD == "used_files_two_levels.md"

\* A written line: the literal text before the path, and the path.
Heading(p) == << "## ", p >>
Bullet(p) == << "- ", p >>
SubBullet(p) == << "    - ", p >>
FileError(p) == << "- [Error reading ", p >>
SubError(p) == << "    - [Error reading ", p >>
Blank == << "", << >> >>

\* A mutation: the paths are written in the order they were discovered.
WriteUsed_unsorted ==
  /\ pc = "used"
  /\ ~aborted
  /\ created' = created \cup { USED_MD }
  /\ used_md' = order
  /\ console' = Append(console, << "Used files written to used_files.md", 0 >>)
  /\ pc' = "direct"
  /\ UNCHANGED << tree, aborted, entry_idx, stack, visited, order, failures,
                  all_files, unused_files, direct_md, two_md, query >>

\* Lines 65-69.
WriteUsed ==
  /\ pc = "used"
  /\ ~aborted
  /\ created' = created \cup { USED_MD }
  /\ used_md' = sorted(visited)
  /\ console' = Append(console, << "Used files written to used_files.md", 0 >>)
  /\ pc' = "direct"
  /\ UNCHANGED << tree, aborted, entry_idx, stack, visited, order, failures,
                  all_files, unused_files, direct_md, two_md, query >>

\* The bullets lines 78-81 write for the imports of file from position i on.
RECURSIVE DirectBullets(_, _, _)
DirectBullets(file, imports, i) ==
  IF i > Len(imports) THEN << >>
  ELSE LET resolved == resolve_import(file, imports[i])
       IN (IF resolved # None /\ resolved \in visited
             THEN << Bullet(resolved) >> ELSE << >>)
          \o DirectBullets(file, imports, i + 1)

\* What the first n iterations of the loop of lines 73-82 write.
RECURSIVE DirectSections(_, _)
DirectSections(listing, n) ==
  IF n = 0 THEN << >>
  ELSE DirectSections(listing, n - 1)
       \o << Heading(listing[n]) >>
       \o DirectBullets(listing[n], findall(listing[n]), 1)
       \o << Blank >>

\* The iterations of a report loop whose read may raise; 0 stands for none.
FailPoints(listing) == { 0 } \cup (IF failures < MaxFail THEN 1..Len(listing) ELSE {})

\* A mutation: a file that cannot be read is left out of the listing.
DirectReport_skip ==
  /\ pc = "direct"
  /\ ~aborted
  /\ created' = created \cup { DIRECT_MD }
  /\ LET listing == sorted(visited)
     IN \E fail_at \in FailPoints(listing) :
          /\ direct_md' =
               IF fail_at = 0 THEN DirectSections(listing, Len(listing))
               ELSE DirectSections(listing, fail_at - 1)
                    \o << Heading(listing[fail_at]), Blank >>
                    \o DirectSections(SubSeq(listing, fail_at + 1, Len(listing)),
                                      Len(listing) - fail_at)
          /\ failures' = IF fail_at = 0 THEN failures ELSE failures + 1
  /\ console' = Append(console,
       << "Direct imports for each used file written to used_files_direct_imports.md", 0 >>)
  /\ pc' = "two"
  /\ UNCHANGED << tree, aborted, entry_idx, stack, visited, order, all_files,
                  unused_files, used_md, two_md, query >>

\* The direct-imports step, lines 71-83: the loop runs to its end, or the read
\* of iteration fail_at raises and ends the run.
DirectReport ==
  /\ pc = "direct"
  /\ ~aborted
  /\ created' = created \cup { DIRECT_MD }
  /\ LET listing == sorted(visited)
     IN \E fail_at \in FailPoints(listing) :
          IF fail_at = 0
            THEN /\ direct_md' = DirectSections(listing, Len(listing))
                 /\ console' = Append(console,
                      << "Direct imports for each used file written to used_files_direct_imports.md", 0 >>)
                 /\ pc' = "two"
                 /\ UNCHANGED << aborted, failures >>
            ELSE /\ direct_md' = DirectSections(listing, fail_at - 1)
                                   \o << Heading(listing[fail_at]) >>
                 /\ aborted' = TRUE
                 /\ failures' = failures + 1
                 /\ UNCHANGED << console, pc >>
  /\ UNCHANGED << tree, entry_idx, stack, visited, order, all_files,
                  unused_files, used_md, two_md, query >>

\* The positions of imports whose target lines 94-96 list.
Listed(file, imports) ==
  { i \in 1..Len(imports) :
      LET resolved == resolve_import(file, imports[i])
      IN resolved # None /\ resolved \in visited }

\* The nested bullets lines 101-105 write for a listed import.
RECURSIVE SubBullets(_, _, _)
SubBullets(file, sub_imports, i) ==
  IF i > Len(sub_imports) THEN << >>
  ELSE LET sub_resolved == resolve_import(file, sub_imports[i])
       IN (IF sub_resolved # None /\ sub_resolved \in visited
             THEN << SubBullet(sub_resolved) >> ELSE << >>)
          \o SubBullets(file, sub_imports, i + 1)

\* The lines of the outer try body (lines 92-105) from import i on; failing
\* holds the positions whose nested read raises.
RECURSIVE TwoBullets(_, _, _, _)
TwoBullets(file, imports, i, failing) ==
  IF i > Len(imports) THEN << >>
  ELSE LET resolved == resolve_import(file, imports[i])
       IN (IF resolved # None /\ resolved \in visited
             THEN << Bullet(resolved) >>
                  \o (IF i \in failing
                        THEN << SubError(resolved) >>
                        ELSE SubBullets(resolved, findall(resolved), 1))
             ELSE << >>)
          \o TwoBullets(file, imports, i + 1, failing)

\* The outcomes the reads of one iteration of the two-level loop can have when
\* at most budget of them raise: the read of the file itself (ok), and the
\* nested reads of its listed imports (failing).
TwoOutcomes(file, budget) ==
  { o \in [ok : BOOLEAN, failing : SUBSET Listed(file, findall(file))] :
      /\ ~o.ok => o.failing = {}
      /\ (IF o.ok THEN Cardinality(o.failing) ELSE 1) <= budget }

Raised(o) == IF o.ok THEN Cardinality(o.failing) ELSE 1

\* What one iteration of the loop of lines 87-110 writes.
TwoSection(file, o) ==
  << Heading(file) >>
  \o (IF o.ok THEN TwoBullets(file, findall(file), 1, o.failing)
      ELSE << FileError(file) >>)
  \o << Blank >>

\* The runs of the loop of lines 87-110 from iteration k on, each as the lines
\* written and the number of reads that raised.
RECURSIVE TwoRuns(_, _, _)
TwoRuns(listing, k, budget) ==
  IF k > Len(listing) THEN { << << >>, 0 >> }
  ELSE UNION { { << TwoSection(listing[k], o) \o r[1], Raised(o) + r[2] >> :
                   r \in TwoRuns(listing, k + 1, budget - Raised(o)) } :
               o \in TwoOutcomes(listing[k], budget) }

\* A mutation: the reads of the two-level step are not guarded.
TwoReport_unguarded ==
  /\ pc = "two"
  /\ ~aborted
  /\ created' = created \cup { TWO_MD }
  /\ LET listing == sorted(visited)
     IN \E fail_at \in FailPoints(listing) :
          IF fail_at = 0
            THEN /\ two_md' = (CHOOSE r \in TwoRuns(listing, 1, 0) : TRUE)[1]
                 /\ console' = Append(console,
                      << "Two-level imports for each used file written to used_files_two_levels.md", 0 >>)
                 /\ pc' = "done"
                 /\ UNCHANGED << aborted, failures >>
            ELSE /\ two_md' = << Heading(listing[fail_at]) >>
                 /\ aborted' = TRUE
                 /\ failures' = failures + 1
                 /\ UNCHANGED << console, pc >>
  /\ UNCHANGED << tree, entry_idx, stack, visited, order, all_files,
                  unused_files, used_md, direct_md, query >>

\* The two-level step, lines 85-111: every exception of a read is caught.
TwoReport ==
  /\ pc = "two"
  /\ ~aborted
  /\ created' = created \cup { TWO_MD }
  /\ \E r \in TwoRuns(sorted(visited), 1, MaxFail - failures) :
       /\ two_md' = r[1]
       /\ failures' = failures + r[2]
  /\ console' = Append(console,
       << "Two-level imports for each used file written to used_files_two_levels.md", 0 >>)
  /\ pc' = "done"
  /\ UNCHANGED << tree, aborted, entry_idx, stack, visited, order, all_files,
                  unused_files, used_md, direct_md, query >>

\* ------------------------------------------------------------------------
\* Initial states: the trees and entry lists the program is run on
\* ------------------------------------------------------------------------
\* The import statements of a tree, as (file, import path) pairs in the order
\* they stand in their files.
Placements ==
  UNION { [1..n -> Importers \X ImportPaths] : n \in 0..MaxImports }

RECURSIVE ImportsOf(_, _, _)
ImportsOf(pl, f, i) ==
  IF i > Len(pl) THEN << >>
  ELSE (IF pl[i][1] = f THEN << pl[i][2] >> ELSE << >>) \o ImportsOf(pl, f, i + 1)

Contents == { [f \in Universe |-> ImportsOf(pl, f, 1)] : pl \in Placements }

NoContent == [f \in Universe |-> << >>]

InitRun ==
  /\ pc = "traverse"
  /\ aborted = FALSE
  /\ entry_idx = 1
  /\ stack = << >>
  /\ visited = {}
  /\ order = << >>
  /\ failures = 0
  /\ all_files = << >>
  /\ unused_files = << >>
  /\ console = << >>
  /\ created = {}
  /\ used_md = << >>
  /\ direct_md = << >>
  /\ two_md = << >>
  /\ query = << >>

Init ==
  /\ files \in SUBSET Universe
  /\ content \in Contents
  /\ \A f \in Universe : content[f] # << >> => f \in files
  /\ ENTRY_FILES \in { << MAIN_TSX, APP_TSX >>, << APP_TSX, MAIN_TSX >> }
  /\ InitRun

Next ==
  \/ EntrySkip
  \/ EntryVisit
  \/ VisitImport
  \/ VisitReturn
  \/ Summary
  \/ WriteUsed
  \/ DirectReport
  \/ TwoReport

Spec == Init /\ [][Next]_vars

\* ------------------------------------------------------------------------
\* resolve_import called alone, on any tree over ResolveUniverse
\* ------------------------------------------------------------------------
InitResolve ==
  /\ files \in SUBSET ResolveUniverse
  /\ content = NoContent
  /\ ENTRY_FILES = << MAIN_TSX, APP_TSX >>
  /\ InitRun

Resolve(base_file, import_path) ==
  /\ query' = << base_file, import_path, resolve_import(base_file, import_path) >>
  /\ UNCHANGED << tree, pc, aborted, entry_idx, stack, visited, order, failures,
                  outputs >>

NextResolve ==
  \E base_file \in ResolveBases, import_path \in ResolveImports :
    Resolve(base_file, import_path)

SpecResolve == InitResolve /\ [][NextResolve]_vars

\* ------------------------------------------------------------------------
\* Reference notions used by the properties
\* ------------------------------------------------------------------------
\* The targets of the resolvable relative imports of f.
Edges(f) ==
  IF f \in files
    THEN { resolve_import(f, findall(f)[i]) : i \in 1..Len(findall(f)) } \ { None }
    ELSE {}

\* The paths a chain of resolvable imports leads to from S, the imports of
\* the paths in frontier being the ones still to follow.
RECURSIVE Chains(_, _)
Chains(S, frontier) ==
  IF frontier = {} THEN S
  ELSE LET N == (UNION { Edges(f) : f \in frontier }) \ S
       IN Chains(S \cup N, N)

\* The paths a chain of zero or more resolvable imports leads to from S.
Closure(S) == Chains(S, S)

EntryPaths == { entry_path(e) : e \in Range(ENTRY_FILES) }

Inventory == Range(all_files)

Total == console[1][2]
Used == console[2][2]
Unused == console[3][2]

TraversalCompleted == pc # "traverse"

IsFileError(line) == line[1] = "- [Error reading "
IsSubError(line) == line[1] = "    - [Error reading "
IsHeading(line) == line[1] = "## "

\* ------------------------------------------------------------------------
\* Properties
\* ------------------------------------------------------------------------
\* C1: once the traversal has completed normally, a file of the all-files
\* inventory is in visited exactly if a chain of zero or more resolvable
\* relative imports leads to it from some entry file.
C1_VisitedIffReachable ==
  TraversalCompleted =>
    LET reachable == Closure(EntryPaths)
    IN \A F \in Inventory : F \in visited <=> F \in reachable

\* C1 witness: a completed traversal reached an inventory file through a chain
\* of two imports (main -> a.ts -> a/index.js) and left another file unvisited.
C1_Witness ==
  /\ TraversalCompleted
  /\ files = { SrcMain, SrcA, SrcAIndex }
  /\ content[SrcMain] = << ImpA >>
  /\ content[SrcA] = << ImpAIndex >>
  /\ visited = { SrcMain, SrcA, SrcAIndex }

\* An upper bound on the traversal steps still to come: the entries not yet
\* taken, the imports the active calls have not yet taken and their returns,
\* and for each file not yet visited its imports, its call and its return.
RECURSIVE FramesLeft(_)
FramesLeft(stk) ==
  IF stk = << >> THEN 0
  ELSE (Len(Head(stk).imports) + 1 - Head(stk).i) + 1 + FramesLeft(Tail(stk))

RECURSIVE UnvisitedLeft(_)
UnvisitedLeft(S) ==
  IF S = {} THEN 0
  ELSE LET f == CHOOSE x \in S : TRUE
       IN Len(findall(f)) + 2 + UnvisitedLeft(S \ { f })

StepsLeft ==
  (Len(ENTRY_FILES) + 1 - entry_idx) + FramesLeft(stack)
    + UnvisitedLeft(files \ visited)

InTraversal == pc = "traverse" /\ ~aborted

\* C2: the traversal terminates on every tree, cyclic or not: every step that
\* leaves it running lowers the natural number StepsLeft, so only finitely
\* many can follow one another; and no path is added to visited (and read)
\* more than once.
C2_TerminatesVisitingOnce ==
  /\ [](\A i, j \in 1..Len(order) : i # j => order[i] # order[j])
  /\ [](StepsLeft >= 0)
  /\ [][(InTraversal /\ pc' = "traverse") => StepsLeft' < StepsLeft]_vars

\* C2 witness: main.tsx and a.ts import each other, and the traversal over
\* this cycle has completed with each path visited once.
C2_Witness ==
  /\ TraversalCompleted
  /\ ImpA \in Range(content[SrcMain])
  /\ ImpMain \in Range(content[SrcA])
  /\ { SrcMain, SrcA } \subseteq visited
  /\ Len(order) = Cardinality(visited)

\* The candidates of import_path seen from base_file, in the fixed order
\* P.ts, P.tsx, P.js, P.jsx, P/index.ts, P/index.tsx, P/index.js, P/index.jsx.
JoinedPath(base_file, import_path) ==
  normpath(join(dirname(base_file), import_path))

Candidates(P) ==
  [k \in 1..(2 * Len(EXTENSIONS)) |->
     IF k <= Len(EXTENSIONS)
       THEN P \o EXTENSIONS[k]
       ELSE P \o << "/" >> \o INDEX \o EXTENSIONS[k - Len(EXTENSIONS)]]

\* The first candidate that is a regular file, named by its normalized path.
Reference(base_file, import_path) ==
  IF import_path = << >> \/ import_path[1] # "."
    THEN None
    ELSE LET cands == Candidates(JoinedPath(base_file, import_path))
             found == { k \in DOMAIN cands : normpath(cands[k]) \in files }
         IN IF found = {} THEN None
            ELSE normpath(cands[CHOOSE k \in found : \A l \in found : k <= l])

\* C3: resolve_import returns None for an import path that does not begin
\* with '.', otherwise the first existing file among P.ts, P.tsx, P.js, P.jsx,
\* P/index.ts, P/index.tsx, P/index.js, P/index.jsx, or None; P itself is never
\* returned, and an index file only when no P+ext file exists.
C3_ResolveMatchesReference ==
  query # << >> =>
    LET P == JoinedPath(query[1], query[2])
        result == query[3]
    IN /\ result = Reference(query[1], query[2])
       /\ result # P
       /\ result # None => result \in files
       /\ (result # None /\ ~(\E k \in 1..Len(EXTENSIONS) : result = P \o EXTENSIONS[k]))
            => \A k \in 1..Len(EXTENSIONS) : (P \o EXTENSIONS[k]) \notin files

\* C3 witness: './a.ts' is resolved from src/main.tsx while src/a.ts exists
\* and src/a.ts.ts does not: the result is None.
C3_Witness ==
  /\ query # << >>
  /\ query[1] = SrcMain
  /\ query[2] = ImpATs
  /\ SrcA \in files
  /\ SrcATsTs \notin files
  /\ query[3] = None

\* C4: at the summary the unused list is the inventory minus visited, and the
\* counts printed are |all-files|, |visited| and |all-files minus visited|;
\* nothing is printed and unused is not computed before the traversal is over.
C4_SummaryCounts ==
  /\ ~TraversalCompleted => (console = << >> /\ unused_files = << >>)
  /\ TraversalCompleted =>
       /\ Inventory = { f \in files : startswith(f, SRC_DIR \o << "/" >>)
                                        /\ HasSourceExt(f) }
       /\ Len(all_files) = Cardinality(Inventory)
       /\ Range(unused_files) = Inventory \ visited
       /\ console[1] = << "Total files: ", Cardinality(Inventory) >>
       /\ console[2] = << "Used files: ", Cardinality(visited) >>
       /\ console[3] = << "Unused files: ", Cardinality(Inventory \ visited) >>

\* C4 witness: the entry imports one file and a third file is orphaned:
\* Total=3, Used=2, Unused=1.
C4_Witness ==
  /\ TraversalCompleted
  /\ files = { SrcMain, SrcA, SrcAIndex }
  /\ visited = { SrcMain, SrcA }
  /\ Range(unused_files) = { SrcAIndex }
  /\ Total = 3 /\ Used = 2 /\ Unused = 1

\* C5: used_files.md holds the paths reachable from the existing entry files,
\* each once, in increasing lexicographic order; it is thus determined by the
\* tree and the set of entry files alone.
C5_UsedListingSorted ==
  USED_MD \in created =>
    /\ Range(used_md) = Closure({ p \in EntryPaths : exists(p) })
    /\ \A i, j \in 1..Len(used_md) : i < j => StrLess(used_md[i], used_md[j])

\* C5 witness: the listing was written with App.tsx listed before main.tsx in
\* the entry list, and the paths were discovered in another order than the
\* sorted one.
C5_Witness ==
  /\ USED_MD \in created
  /\ ENTRY_FILES[1] = APP_TSX
  /\ Len(used_md) >= 3
  /\ used_md # order

\* C6: a read that fails during the traversal or the direct-imports step
\* aborts the run: in the traversal before anything is printed or written, in
\* the direct-imports step before the two-level report is opened; no failed
\* read is survived, so the two-level step starts with none.
C6_ReadFailureFatal ==
  /\ (pc \in { "traverse", "used", "direct" } /\ failures > 0) => aborted
  /\ pc = "two" => failures = 0
  /\ (aborted /\ pc = "traverse") =>
       (console = << >> /\ created = {} /\ order # << >>)
  /\ (aborted /\ pc = "direct") =>
       /\ TWO_MD \notin created
       /\ two_md = << >>
       /\ IsHeading(direct_md[Len(direct_md)])
       /\ Len(console) = 4

\* C6 witness: the run aborted in the direct-imports step on a file that is not
\* the first of the listing.
C6_Witness ==
  /\ aborted
  /\ pc = "direct"
  /\ Len(direct_md) > 1

\* C7: in the two-level step no failure aborts the run: each failed read is
\* rendered as an error bullet right under the heading (or the bullet) of the
\* file it concerns, the visited files get their headings in sorted order, and
\* the step ends with its completion line.
C7_TwoLevelContainsFailures ==
  /\ aborted => pc \in { "traverse", "direct" }
  /\ pc = "done" =>
       LET listing == sorted(visited)
       IN /\ TWO_MD \in created
          /\ Len(SelectSeq(two_md, LAMBDA l : IsFileError(l) \/ IsSubError(l)))
               = failures
          /\ \A k \in 1..Len(two_md) :
               /\ IsFileError(two_md[k]) =>
                    (k > 1 /\ two_md[k - 1] = Heading(two_md[k][2]))
               /\ IsSubError(two_md[k]) =>
                    (k > 1 /\ two_md[k - 1] = Bullet(two_md[k][2]))
          /\ SelectSeq(two_md, IsHeading)
               = [k \in 1..Len(listing) |-> Heading(listing[k])]
          /\ Len(console) = 6

\* C7 witness: the two-level step completed although the nested read of a
\* listed import failed, and a later file of the listing got its section.
C7_Witness ==
  /\ pc = "done"
  /\ \E k \in 1..Len(two_md) :
       /\ IsSubError(two_md[k])
       /\ \E l \in (k + 1)..Len(two_md) : IsHeading(two_md[l])

\* C8: an entry file that is not on disk is skipped without an error and is
\* never visited, the entries after it are still traversed, the first path
\* visited is the first existing entry, and with no entry on disk visited
\* stays empty and every inventory file is reported unused.
C8_MissingEntrySkipped ==
  /\ \A p \in EntryPaths : ~exists(p) => p \notin visited
  /\ TraversalCompleted => \A p \in EntryPaths : exists(p) => p \in visited
  /\ order # << >> =>
       \E i \in 1..Len(ENTRY_FILES) :
         /\ order[1] = entry_path(ENTRY_FILES[i])
         /\ \A j \in 1..(i - 1) : ~exists(entry_path(ENTRY_FILES[j]))
  /\ (\A p \in EntryPaths : ~exists(p)) =>
       /\ visited = {}
       /\ ~aborted
       /\ TraversalCompleted => unused_files = all_files

\* C8 witness: the first listed entry is missing, the second exists and has
\* been traversed, and the run has gone on to its end.
C8_Witness ==
  /\ pc = "done"
  /\ ~exists(entry_path(ENTRY_FILES[1]))
  /\ entry_path(ENTRY_FILES[2]) \in visited
  /\ Cardinality(visited) >= 2

\* The section the direct-imports listing holds for file when every
\* resolvable import of it is listed, in source order.
RECURSIVE ResolvableBullets(_, _, _)
ResolvableBullets(file, imports, i) ==
  IF i > Len(imports) THEN << >>
  ELSE (IF resolve_import(file, imports[i]) # None
          THEN << Bullet(resolve_import(file, imports[i])) >> ELSE << >>)
       \o ResolvableBullets(file, imports, i + 1)

RECURSIVE FullSections(_, _)
FullSections(fs, n) ==
  IF n = 0 THEN << >>
  ELSE FullSections(fs, n - 1) \o << Heading(fs[n]) >>
       \o ResolvableBullets(fs[n], findall(fs[n]), 1) \o << Blank >>

\* C9: once the traversal has completed normally, every resolvable import of a
\* visited file is visited, and the direct-imports listing holds for each file
\* whose section was written exactly its resolvable imports in source order.
C9_VisitedClosed ==
  TraversalCompleted =>
    LET listing == sorted(visited)
    IN /\ \A f \in visited : Edges(f) \subseteq visited
       /\ pc \in { "two", "done" } =>
            direct_md = FullSections(listing, Len(listing))
       /\ (pc = "direct" /\ aborted) =>
            \E k \in 1..Len(listing) :
              direct_md = FullSections(listing, k - 1) \o << Heading(listing[k]) >>

\* C9 witness: the direct-imports listing is complete for a tree in which a
\* visited file imports two files, one of them outside SRC_DIR.
C9_Witness ==
  /\ pc = "two"
  /\ \E f \in visited : Cardinality(Edges(f)) = 2 /\ OutsideX \in Edges(f)

\* C10: visited need not be a subset of the inventory, and the printed counts
\* satisfy Used + Unused = Total exactly when it is.
C10_CountsAddUpIffSubset ==
  TraversalCompleted => ((Used + Unused = Total) <=> visited \subseteq Inventory)

\* C10 witness: an import that leaves SRC_DIR was followed, so that visited
\* holds a file outside the inventory and Used + Unused exceeds Total.
C10_Witness ==
  /\ TraversalCompleted
  /\ OutsideX \in visited
  /\ OutsideX \notin Inventory
  /\ Used + Unused > Total

====
